---- MODULE Spec2Model ----
(***************************************************************************)
(* compile_shaders.py: the staleness-checking shader build driver.         *)
(*                                                                         *)
(* A path is a sequence of tokens, each token a fixed piece of text        *)
(* ("shaders", "/", ".vert", ...); concatenating the tokens gives the      *)
(* path's characters.  The tokens are chosen so that every occurrence of   *)
(* 'shaders/src/' in a modelled path is an occurrence of the token         *)
(* sequence <<"shaders", "/", "src", "/">>, hence str.replace, endswith,   *)
(* os.path.join and os.path.dirname act on tokens as they act on           *)
(* characters.                                                             *)
(*                                                                         *)
(* The driver is one sequential process (pc); the compiler it launches is  *)
(* a child process (running) that writes the artifact and exits with a     *)
(* status.  Time is the file system's clock (now), which stamps what the   *)
(* compiler writes.                                                        *)
(***************************************************************************)
EXTENDS Integers, Sequences, FiniteSets, TLC

(* ------------------------------ bounds --------------------------------- *)
\* The clock runs from 0 to MaxTime; modification times are drawn from
\* PreEpoch..MaxTime.
MaxTime == 1
\* The script is run at most MaxRuns times in a row.
MaxRuns == 2

\* A modification time before 1970-01-01: os.stat reports it as a negative
\* st_mtime.
PreEpoch == 0 - 1
Times == PreEpoch..MaxTime

(* --------------------------- string helpers ---------------------------- *)
\* str.endswith
endswith(s, suf) ==
    /\ Len(s) >= Len(suf)
    /\ SubSeq(s, Len(s) - Len(suf) + 1, Len(s)) = suf

\* str.startswith
startswith(s, pre) ==
    /\ Len(s) >= Len(pre)
    /\ SubSeq(s, 1, Len(pre)) = pre

\* str.replace(old, new): every non-overlapping occurrence, leftmost first.
RECURSIVE replace(_, _, _)
replace(s, old, new) ==
    IF Len(s) < Len(old) THEN s
    ELSE IF SubSeq(s, 1, Len(old)) = old
         THEN new \o replace(SubSeq(s, Len(old) + 1, Len(s)), old, new)
         ELSE <<Head(s)>> \o replace(Tail(s), old, new)

\* os.path.join(a, b) of posixpath
os_path_join(a, b) ==
    IF startswith(b, <<"/">>) THEN b
    ELSE IF a = <<>> \/ endswith(a, <<"/">>) THEN a \o b
    ELSE a \o <<"/">> \o b

\* The index of the last "/" of p, 0 when it has none (str.rfind + 1).
LastSlash(p) ==
    LET S == {k \in 1..Len(p) : p[k] = "/"}
    IN  IF S = {} THEN 0 ELSE CHOOSE k \in S : \A j \in S : j <= k

\* str.rstrip('/')
RECURSIVE rstrip(_)
rstrip(p) ==
    IF p # <<>> /\ p[Len(p)] = "/" THEN rstrip(SubSeq(p, 1, Len(p) - 1)) ELSE p

\* os.path.dirname(p) of posixpath
os_path_dirname(p) ==
    LET head == SubSeq(p, 1, LastSlash(p))
    IN  IF head # <<>> /\ \E k \in 1..Len(head) : head[k] # "/"
        THEN rstrip(head) ELSE head

(* ------------------------------ main() --------------------------------- *)
base_src_path == <<"shaders", "/", "src", "/">>
base_dst_path == <<"shaders", "/", "spv", "/">>

\* '{}/**'.format(base_src_path) names the directory the glob walks:
\* os.path.split drops the trailing slashes of 'shaders/src//'.
GlobRoot == rstrip(base_src_path)

\* The source tree, as paths relative to the source root, grouped by the
\* entry of the root directory they hang under.  A directory is listed before
\* what it holds.
TreeGroups ==
    << << <<"a", ".vert">> >>,
       << <<"sub">>, <<"sub", "/", "b", ".frag">> >>,
       << <<"shaders">>, <<"shaders", "/", "src">>,
          <<"shaders", "/", "src", "/", "a", ".vert">> >> >>

\* The orders in which a recursive walk can list the tree: the root itself
\* first (the empty relative path), then the root's entries in any order.
Listings ==
    { <<  <<>>  >> \o TreeGroups[p[1]] \o TreeGroups[p[2]] \o TreeGroups[p[3]] :
        p \in Permutations(1..3) }

\* glob.glob('shaders/src//**', recursive=True) for one listing order.
glob(listing) ==
    [k \in 1..Len(listing) |-> os_path_join(GlobRoot, listing[k])]

\* line 21: file.endswith('.vert') or file.endswith('.frag')
\* (faulty variant: the filter lets every path through)
RecognizedAll(file) == TRUE
Recognized(file) ==
    endswith(file, <<".vert">>) \/ endswith(file, <<".frag">>)

\* line 24: the artifact path of a source file
DstFile(file) ==
    os_path_join(base_dst_path, replace(file, base_src_path, <<>>)) \o <<".spv">>

\* os.makedirs(d, exist_ok=True): d and every missing ancestor of it.
\* (faulty variant: the directory is not created)
makedirs_noop(ds, d) == ds
makedirs(ds, d) ==
    ds \cup { SubSeq(d, 1, k) : k \in { j \in 1..Len(d) :
                  d[j] # "/" /\ (j = Len(d) \/ d[j + 1] = "/") } }

\* get_mtime: st_mtime of an existing file, 0.0 for a missing one.
\* (faulty variant: every file is taken as missing)
get_mtime_zero(files_mtime, fpath) == 0
get_mtime(files_mtime, fpath) ==
    IF fpath \in DOMAIN files_mtime THEN files_mtime[fpath] ELSE 0

\* line 27: the condition under which the file is skipped
\* (faulty variants: the comparison reversed; no file ever skipped)
UpToDateFlipped(dst_mtime, src_mtime) == dst_mtime < src_mtime
UpToDateNever(dst_mtime, src_mtime) == FALSE
UpToDate(dst_mtime, src_mtime) == dst_mtime > src_mtime

\* line 31: subprocess.run returns once the child it started has exited.
\* (faulty variant: the child is started and not waited for)
ChildReturnedAtOnce(procs, k) == TRUE
ChildReturned(procs, k) == \A r \in procs : r.idx # k

\* line 32: ret.check_returncode() raises on a non-zero status.
\* (faulty variant: the status is not checked)
check_returncode_ignored(code) == FALSE
check_returncode(code) == code # 0

(* ------------------------------- state --------------------------------- *)
VARIABLES
    files,      \* the list glob.glob returned, in its order
    i,          \* the for loop's position in files
    pc,         \* the driver's position in main()
    dst_file,   \* main's local dst_file
    ret,        \* the exit status of the compiler that exited last
    fs,         \* the files whose mtime the run reads: path -> st_mtime
    dirs,       \* the directories that exist
    now,        \* the file system's clock
    running,    \* the compiler processes in progress
    run,        \* the number of this run of the script
    examined,   \* history: index -> times the loop took files[index]
    mkd,        \* history: indices for which os.makedirs was called
    invoked,    \* history: index -> compiler launches in this run
    cmp,        \* history: what line 27 last read
    absent,     \* history: indices whose artifact was missing at line 27
    started,    \* history: the clock at the start of each run
    written     \* history: the artifacts the compiler wrote, over all runs

vars == <<files, i, pc, dst_file, ret, fs, dirs, now, running, run,
          examined, mkd, invoked, cmp, absent, started, written>>

hist == <<examined, mkd, invoked, cmp, absent, started, written>>

Range(f) == { f[k] : k \in DOMAIN f }

\* The regular files of the source tree: its shader sources.
SourceFiles ==
    { f \in Range(glob(CHOOSE l \in Listings : TRUE)) :
        endswith(f, <<".vert">>) \/ endswith(f, <<".frag">>) }

\* The artifacts earlier runs of the script may have left behind.
Artifacts == { DstFile(f) : f \in SourceFiles }

\* The output directories that may exist before the first run.
InitialDirs ==
    { {<<"shaders">>},
      {<<"shaders">>, <<"shaders", "/", "spv">>},
      {<<"shaders">>, <<"shaders", "/", "spv">>,
       <<"shaders", "/", "spv", "/", "sub">>} }

\* f and g, which have disjoint domains, as one function.
Merge(f, g) ==
    [x \in DOMAIN f \cup DOMAIN g |-> IF x \in DOMAIN f THEN f[x] ELSE g[x]]

NoCounts == [k \in 1..Len(files) |-> 0]

Init ==
    /\ files \in { glob(l) : l \in Listings }
    /\ i = 1
    /\ pc = "next"
    /\ dst_file = <<>>
    /\ ret = 0
    /\ dirs \in InitialDirs
    /\ \E present \in SUBSET Artifacts :
          /\ \A a \in present : os_path_dirname(a) \in dirs
          /\ \E src \in [SourceFiles -> Times], art \in [present -> Times] :
                fs = Merge(src, art)
    /\ now \in 0..MaxTime
    /\ running = {}
    /\ run = 1
    /\ examined = NoCounts
    /\ mkd = {}
    /\ invoked = NoCounts
    /\ cmp = [exists |-> FALSE, dst |-> 0, src |-> 0]
    /\ absent = {}
    /\ started = <<now>>
    /\ written = {}

(* ------------------------------ the loop ------------------------------- *)
\* line 20: the list is exhausted, main returns.
LoopExit ==
    /\ pc = "next"
    /\ i > Len(files)
    /\ pc' = "done"
    /\ UNCHANGED <<files, i, dst_file, ret, fs, dirs, now, running, run, hist>>

\* lines 20-22: the next path has no recognized extension: continue.
SkipUnrecognized ==
    /\ pc = "next"
    /\ i <= Len(files)
    /\ ~Recognized(files[i])
    /\ examined' = [examined EXCEPT ![i] = @ + 1]
    /\ i' = i + 1
    /\ UNCHANGED <<files, pc, dst_file, ret, fs, dirs, now, running, run,
                   mkd, invoked, cmp, absent, started, written>>

\* lines 20-22: the next path is a shader source.
TakeFile ==
    /\ pc = "next"
    /\ i <= Len(files)
    /\ Recognized(files[i])
    /\ examined' = [examined EXCEPT ![i] = @ + 1]
    /\ pc' = "mkdir"
    /\ UNCHANGED <<files, i, dst_file, ret, fs, dirs, now, running, run,
                   mkd, invoked, cmp, absent, started, written>>

\* lines 24-25: derive the artifact path, create its directory.
MakeDst ==
    /\ pc = "mkdir"
    /\ dst_file' = DstFile(files[i])
    /\ dirs' = makedirs(dirs, os_path_dirname(dst_file'))
    /\ mkd' = mkd \cup {i}
    /\ pc' = "stat"
    /\ UNCHANGED <<files, i, ret, fs, now, running, run,
                   examined, invoked, cmp, absent, started, written>>

\* What line 27 reads.
Stat ==
    [exists |-> dst_file \in DOMAIN fs,
     dst    |-> get_mtime(fs, dst_file),
     src    |-> get_mtime(fs, files[i])]

\* lines 27-28: the artifact is newer: continue.
SkipUpToDate ==
    /\ pc = "stat"
    /\ UpToDate(Stat.dst, Stat.src)
    /\ cmp' = Stat
    /\ absent' = IF Stat.exists THEN absent ELSE absent \cup {i}
    /\ i' = i + 1
    /\ pc' = "next"
    /\ UNCHANGED <<files, dst_file, ret, fs, dirs, now, running, run,
                   examined, mkd, invoked, started, written>>

\* line 27: the artifact is not newer: go on to compile.
Stale ==
    /\ pc = "stat"
    /\ ~UpToDate(Stat.dst, Stat.src)
    /\ cmp' = Stat
    /\ absent' = IF Stat.exists THEN absent ELSE absent \cup {i}
    /\ pc' = "run"
    /\ UNCHANGED <<files, i, dst_file, ret, fs, dirs, now, running, run,
                   examined, mkd, invoked, started, written>>

\* lines 30-31: subprocess.run starts glslc -o dst_file file.
Launch ==
    /\ pc = "run"
    /\ running' = running \cup {[idx |-> i, dst |-> dst_file]}
    /\ invoked' = [invoked EXCEPT ![i] = @ + 1]
    /\ pc' = "wait"
    /\ UNCHANGED <<files, i, dst_file, ret, fs, dirs, now, run,
                   examined, mkd, cmp, absent, started, written>>

\* glslc compiles, writes the artifact stamped with the clock, exits 0.
CompilerSucceeds ==
    \E r \in running :
        /\ running' = running \ {r}
        /\ fs' = [p \in DOMAIN fs \cup {r.dst} |->
                    IF p = r.dst THEN now ELSE fs[p]]
        /\ ret' = 0
        /\ written' = written \cup {r.dst}
        /\ UNCHANGED <<files, i, pc, dst_file, dirs, now, run,
                       examined, mkd, invoked, cmp, absent, started>>

\* glslc rejects the source: nothing is written, the status is non-zero.
CompilerFails ==
    \E r \in running :
        /\ running' = running \ {r}
        /\ ret' = 1
        /\ UNCHANGED <<files, i, pc, dst_file, fs, dirs, now, run, hist>>

\* line 31: subprocess.run returns with the child's status.
Wait ==
    /\ pc = "wait"
    /\ ChildReturned(running, i)
    /\ pc' = "check"
    /\ UNCHANGED <<files, i, dst_file, ret, fs, dirs, now, running, run, hist>>

\* line 32: a non-zero status raises CalledProcessError out of main.
CheckRaises ==
    /\ pc = "check"
    /\ check_returncode(ret)
    /\ pc' = "failed"
    /\ UNCHANGED <<files, i, dst_file, ret, fs, dirs, now, running, run, hist>>

\* line 32: status 0, the loop goes on.
CheckPasses ==
    /\ pc = "check"
    /\ ~check_returncode(ret)
    /\ i' = i + 1
    /\ pc' = "next"
    /\ UNCHANGED <<files, dst_file, ret, fs, dirs, now, running, run, hist>>

(* ---------------------------- environment ------------------------------ *)
\* The clock advances.  It is read only when a compiler writes its artifact,
\* so it is let advance while a compiler runs and between runs.
Tick ==
    /\ running # {} \/ pc \in {"done", "failed"}
    /\ now < MaxTime
    /\ now' = now + 1
    /\ UNCHANGED <<files, i, pc, dst_file, ret, fs, dirs, running, run, hist>>

\* After a run that completed, the script is started again on the unchanged
\* source tree.
Restart ==
    /\ pc = "done"
    /\ run < MaxRuns
    /\ run' = run + 1
    /\ started' = Append(started, now)
    /\ i' = 1
    /\ pc' = "next"
    /\ dst_file' = <<>>
    /\ ret' = 0
    /\ examined' = NoCounts
    /\ invoked' = NoCounts
    /\ mkd' = {}
    /\ absent' = {}
    /\ cmp' = [exists |-> FALSE, dst |-> 0, src |-> 0]
    /\ UNCHANGED <<files, fs, dirs, now, running, written>>

Next ==
    \/ LoopExit
    \/ SkipUnrecognized
    \/ TakeFile
    \/ MakeDst
    \/ SkipUpToDate
    \/ Stale
    \/ Launch
    \/ CompilerSucceeds
    \/ CompilerFails
    \/ Wait
    \/ CheckRaises
    \/ CheckPasses
    \/ Tick
    \/ Restart

Spec == Init /\ [][Next]_vars

(* ------------------------------ properties ----------------------------- *)
\* The path has one of the two shader extensions.
IsShader(file) == endswith(file, <<".vert">>) \/ endswith(file, <<".frag">>)

\* The output root joined with the path of file relative to the source root,
\* followed by '.spv'.
MirrorPath(file) ==
    LET rel == IF startswith(file, base_src_path)
               THEN SubSeq(file, Len(base_src_path) + 1, Len(file)) ELSE file
    IN  base_dst_path \o rel \o <<".spv">>

\* The driver has decided to compile files[i], or is compiling it.
Compiling == pc \in {"run", "wait"}

\* C1: the compiler is invoked for a source only if, when the file was
\* examined, its artifact was absent or strictly older than the source (so
\* never when the two modification times were equal).
C1_OnlyIfStrictlyOlder ==
    Compiling => (~cmp.exists \/ cmp.dst < cmp.src)

\* C1 as amended: the compiler is invoked for a source only if, when the file
\* was examined, its artifact was absent or not newer than the source (older,
\* or of the same modification time).
C1_OnlyIfNotNewer ==
    Compiling => (~cmp.exists \/ cmp.dst <= cmp.src)

\* A compiler launched for an artifact as old as its source.
C1_Witness ==
    pc = "wait" /\ running # {} /\ cmp.exists /\ cmp.dst = cmp.src

\* C2: a recognized source whose artifact was missing when it was examined,
\* in a run where no compiler invocation has failed so far, has had the
\* compiler invoked exactly once by the time the loop has moved past it,
\* whatever the source's modification time.
C2_MissingCompiledOnce ==
    \A k \in absent : k < i => invoked[k] = 1

\* C3: when the artifact's modification time is strictly greater than the
\* source's at the comparison, the compiler is not invoked for that source and
\* the loop moves on to the next file.
C3_NewerSkipped ==
    [][(/\ pc = "stat"
        /\ (IF dst_file \in DOMAIN fs THEN fs[dst_file] ELSE 0) > fs[files[i]]
        /\ pc' # "stat")
       => (/\ pc' = "next"
           /\ i' = i + 1
           /\ invoked' = invoked
           /\ running' = running
           /\ fs' = fs)]_vars

\* The loop has just moved past a source whose existing artifact is newer,
\* without compiling it.
C3_Witness ==
    /\ pc = "next"
    /\ i > 1
    /\ (i - 1) \in mkd
    /\ invoked[i - 1] = 0
    /\ cmp.exists
    /\ cmp.dst > cmp.src

\* C4: a non-zero exit status of the compiler halts the run at once: the run
\* ends in the failure state, and from then on no file is examined, no
\* directory is created and no compiler is invoked.
C4_FailureHalts ==
    [][/\ (pc = "check" /\ ret # 0 /\ pc' # pc) => pc' = "failed"
       /\ pc = "failed" => (/\ pc' = "failed"
                            /\ i' = i
                            /\ examined' = examined
                            /\ dirs' = dirs
                            /\ invoked' = invoked
                            /\ running' = running
                            /\ fs' = fs)]_vars

\* The run has failed with a shader source still ahead in the list.
C4_Witness ==
    /\ pc = "failed"
    /\ ret # 0
    /\ \E k \in (i + 1)..Len(files) : IsShader(files[k]) /\ examined[k] = 0

\* C5: the artifact path derived for a source is the output root joined with
\* the source's path relative to the source root, followed by '.spv', also
\* when the relative path itself contains 'shaders/src/'.
C5_MirrorsRelativePath ==
    pc \in {"stat", "run", "wait", "check"} => dst_file = MirrorPath(files[i])

\* C6: whenever the modification times are compared or the compiler is
\* invoked for a source, the parent directory of its artifact exists.
C6_DirExists ==
    /\ pc \in {"stat", "run", "wait", "check"}
          => os_path_dirname(dst_file) \in dirs
    /\ \A r \in running : os_path_dirname(r.dst) \in dirs

\* A compiler is running whose artifact goes to a subdirectory of the output
\* root.
C6_Witness ==
    /\ pc = "wait"
    /\ running # {}
    /\ i \in mkd
    /\ Len(os_path_dirname(dst_file)) > Len(base_dst_path)
    /\ os_path_dirname(dst_file) \in dirs

\* C7: no compiler is invoked and no directory is created for a listed path
\* that ends neither in '.vert' nor in '.frag'.
C7_OnlyShaders ==
    /\ \A k \in 1..Len(files) :
          (invoked[k] > 0 \/ k \in mkd) => IsShader(files[k])
    /\ \A r \in running : IsShader(files[r.idx])

\* A run is over in which a compiler was invoked and a path with another
\* ending (a directory of the tree) was passed over.
C7_Witness ==
    /\ pc = "done"
    /\ \E k \in 1..Len(files) : invoked[k] > 0
    /\ \E k \in 1..Len(files) : examined[k] = 1 /\ ~IsShader(files[k])

\* The driver's distance from the end of the run: the paths still to take,
\* and the statements left for the current one.
StepsLeft ==
    6 * (Len(files) + 1 - i)
    + CASE pc = "next"  -> 5
        [] pc = "mkdir" -> 4
        [] pc = "stat"  -> 3
        [] pc = "run"   -> 2
        [] pc = "wait"  -> 1
        [] pc = "check" -> 0
        [] OTHER        -> 0 - 1

\* At most one compiler is in progress, and while it is the driver waits for
\* it; the loop has taken exactly the paths before its position, once each,
\* and has invoked the compiler at most once for each.
OneAtATime ==
    /\ Cardinality(running) <= 1
    /\ running # {} => (pc = "wait" /\ \A r \in running : r.idx = i)
    /\ i \in 1..(Len(files) + 1)
    /\ pc = "done" => i = Len(files) + 1
    /\ \A k \in 1..Len(files) :
          /\ invoked[k] <= 1
          /\ examined[k] = IF k < i \/ (k = i /\ pc # "next") THEN 1 ELSE 0
          /\ invoked[k] = 1 => examined[k] = 1

\* C8: a run is sequential: at most one compiler is in progress and the
\* driver does not go on before it has returned; each listed path is examined
\* at most once and the compiler invoked at most once for it; and every step
\* of the driver brings the run closer to its end, which it reaches after at
\* most six steps per listed path.
C8_Sequential ==
    /\ [](OneAtATime /\ StepsLeft >= 0 - 1)
    /\ [][((pc' # pc \/ i' # i) /\ run' = run) => StepsLeft' < StepsLeft]_vars

\* A run is over in which two sources were compiled.
C8_Witness ==
    /\ pc = "done"
    /\ \E j, k \in 1..Len(files) : j # k /\ invoked[j] = 1 /\ invoked[k] = 1

\* C9: two distinct recognized sources never derive the same artifact path:
\* the artifact a compiler is invoked to write belongs to no other source.
C9_DistinctArtifacts ==
    pc = "run" =>
        \A k \in 1..Len(files) :
            (k # i /\ IsShader(files[k])) => DstFile(files[k]) # dst_file

\* C10: in a run that follows a run in which every compiler invocation
\* succeeded, with no source changed in between, the compiler is invoked for
\* no file.
C10_SecondRunIdle ==
    run >= 2 => \A k \in 1..Len(files) : invoked[k] = 0

\* C10 as amended: in a run that follows a run in which every compiler
\* invocation succeeded, with no source changed in between, the compiler is
\* invoked for no file, provided every source's modification time is strictly
\* earlier than the time at which the earlier run started.
C10_IdleWhenSourcesOlder ==
    (/\ run >= 2
     /\ \A k \in 1..Len(files) :
           IsShader(files[k]) => fs[files[k]] < started[run - 1])
    => \A k \in 1..Len(files) : invoked[k] = 0

\* A second run is over, after a first run that compiled something, the
\* sources all older than the first run's start.
C10_Witness ==
    /\ run = 2
    /\ pc = "done"
    /\ written # {}
    /\ \A k \in 1..Len(files) :
          IsShader(files[k]) => fs[files[k]] < started[1]

====
